---- MODULE Spec2Model ----
(***************************************************************************)
(* Model of the logger package: the LogMessage record and its two          *)
(* serializations (SerializeFields, getZapFields), the Fields map helpers, *)
(* and the process-wide zap logger runtime (lazy construction under        *)
(* sync.Once, the atomic level, AddStackTrace and the dispatch routine     *)
(* callZapLogger).                                                         *)
(***************************************************************************)
EXTENDS Integers, Sequences, FiniteSets, TLC

VARIABLES
    \* ---- record serialization (part_000, logger.go getZapFields) ----
    rec,        \* the *LogMessage under serialization
    out,        \* result of the last serialization call
    \* ---- Fields maps (logrus.go) ----
    heap,       \* Go map objects by reference: ref -> [key -> value]
    fcall,      \* the last Fields call: receiver, argument, result, snapshot
    bld,        \* the builder (*entry) in use and the records it has dispatched
    \* ---- logger runtime (logger.go) ----
    env,        \* environment of the process (fixed at start)
    logEnv,     \* var logEnv
    logLvl,     \* var logLvl: which AtomicLevel cell the variable refers to
    cells,      \* the AtomicLevel cells: cell -> zapcore.Level
    zapLogger,  \* var zapLogger: Nil or a logger instance
    once,       \* initZapLoggerOnce
    builds,     \* number of times buildZapLogger has been entered
    nextId,     \* next logger instance identity
    pc,         \* per thread: position inside the current call
    cur,        \* per thread: the current call and its locals
    outcome,    \* how the call that ended last ended
    sink,       \* what the zap core has written, in order
    exited,     \* os.Exit has been called (zap Fatal)
    calls,      \* number of API calls started
    hist        \* history: SetLevel calls made, instances GetZapLogger returned

serVars == <<rec, out>>
fldVars == <<heap, fcall, bld>>
rtVars  == <<env, logEnv, logLvl, cells, zapLogger, once, builds, nextId,
             pc, cur, outcome, sink, exited, calls, hist>>
vars    == <<rec, out, heap, fcall, bld, env, logEnv, logLvl, cells, zapLogger,
             once, builds, nextId, pc, cur, outcome, sink, exited, calls, hist>>

\* a nil *LogMessage and a nil *zap.Logger
NilRecord == [isNil |-> TRUE]
NilLogger == [id |-> 0, cell |-> 0, stack |-> 0]

(***************************************************************************)
(* Strings.  Keys are compared byte-wise by sort.Strings; StrBytes gives   *)
(* the bytes of the key strings the model uses.                            *)
(***************************************************************************)
StrBytes ==
    [ count |-> <<99, 111, 117, 110, 116>>,
      error |-> <<101, 114, 114, 111, 114>>,
      user  |-> <<117, 115, 101, 114>>,
      Zone  |-> <<90, 111, 110, 101>> ]

\* a < b in byte-wise lexicographic order
RECURSIVE LexLess(_, _)
LexLess(a, b) ==
    IF b = <<>> THEN FALSE
    ELSE IF a = <<>> THEN TRUE
    ELSE IF Head(a) # Head(b) THEN Head(a) < Head(b)
    ELSE LexLess(Tail(a), Tail(b))

StrLess(a, b) == LexLess(StrBytes[a], StrBytes[b])

\* sort.Strings: the keys of S in ascending order
RECURSIVE SortStrings(_)
SortStrings(S) ==
    IF S = {} THEN <<>>
    ELSE LET m == CHOOSE x \in S : \A y \in S \ {x} : StrLess(x, y)
         IN  <<m>> \o SortStrings(S \ {m})

\* every order in which Go's range may enumerate a map with key set S
RECURSIVE MapOrders(_)
MapOrders(S) ==
    IF S = {} THEN {<<>>}
    ELSE UNION { { <<x>> \o r : r \in MapOrders(S \ {x}) } : x \in S }

\* strings.Join(fields, sep)
RECURSIVE Join(_, _)
Join(fields, sep) ==
    IF fields = <<>> THEN ""
    ELSE IF Len(fields) = 1 THEN fields[1]
    ELSE fields[1] \o sep \o Join(Tail(fields), sep)

(***************************************************************************)
(* LogMessage and its serializations.                                      *)
(***************************************************************************)
\* a Go interface{} value held in a map: untyped nil, a string or an int
NilValue    == [kind |-> "nil"]
StrValue(s) == [kind |-> "string", v |-> s]
IntValue(i) == [kind |-> "int", v |-> i]

\* os.Args[0] as its "/"-separated segments ("/go/bin/usersapi")
Args0 == <<"", "go", "bin", "usersapi">>

\* getGlobalTags: application, and the last path segment of os.Args[0]
getGlobalTags ==
    [ application |-> "astra",
      component   |-> Args0[Len(Args0)] ]

\* time.Time.Format(UtcTimeFormat) of the model's instants (0 is the zero Time)
FormatTime(t) == "2021-03-04T05:06:0" \o ToString(t) \o ".000000Z"

\* fmt.Sprintf("%v", x) of a map value
FormatValue(x) ==
    CASE x.kind = "nil"    -> "<nil>"
      [] x.kind = "string" -> x.v
      [] x.kind = "int"    -> ToString(x.v)

Quoted(s) == "\"" \o s \o "\""

\* one "key=text" element of SerializeFields' slice
Field(k, text) == [key |-> k, text |-> text]

\* an append guarded by the attribute's zero test
When(cond, fs) == IF cond THEN fs ELSE <<>>

\* SerializeFields lines 61-94: the fixed attributes
FixedFields(l) ==
       When(l.LoggerContext # "", <<Field("rosetta-context", Quoted(l.LoggerContext))>>)
    \o When(l.Status # 0,         <<Field("status", ToString(l.Status))>>)
    \o When(l.Method # "",        <<Field("method", Quoted(l.Method))>>)
    \o When(l.Protocol # "",      <<Field("protocol", Quoted(l.Protocol))>>)
    \o When(l.Path # "",          <<Field("path", Quoted(l.Path))>>)
    \o When(l.Query # "",         <<Field("query", Quoted(l.Query))>>)
    \o When(l.ClientIP # "",      <<Field("client-ip", Quoted(l.ClientIP))>>)
    \o When(l.UserAgent # "",     <<Field("user-agent", Quoted(l.UserAgent))>>)
    \o When(l.StartTime # 0,      <<Field("start-time", Quoted(FormatTime(l.StartTime)))>>)
    \o When(l.EndTime # 0,        <<Field("end-time", Quoted(FormatTime(l.EndTime)))>>)
    \o When(l.LatencyNanoSeconds # 0,
            << Field("latency-unit", Quoted("ns")),
               Field("latency", ToString(l.LatencyNanoSeconds)) >>)

\* SerializeFields lines 102-108: one extra property, by the value's kind
ExtraField(key, x) ==
    IF x.kind = "nil" THEN Field(key, Quoted(FormatValue(NilValue)))
    ELSE IF x.kind = "string" THEN Field(key, Quoted(FormatValue(x)))
    ELSE Field(key, FormatValue(x))

\* SerializeFields lines 96-109: the extras, keys sorted with sort.Strings
ExtraFields(l) ==
    LET keys == SortStrings(DOMAIN l.AdditionalProperties)
    IN  [i \in 1..Len(keys) |-> ExtraField(keys[i], l.AdditionalProperties[keys[i]])]

\* SerializeFields lines 111-115: range over getGlobalTags(), in the order
\* tagOrder that this run of the map iteration happens to take
TagFields(skipGlobalTags, tagOrder) ==
    IF skipGlobalTags THEN <<>>
    ELSE [i \in 1..Len(tagOrder) |-> Field(tagOrder[i], Quoted(getGlobalTags[tagOrder[i]]))]

\* the slice `fields` of SerializeFields just before strings.Join
SerializeFieldList(l, skipGlobalTags, tagOrder) ==
    FixedFields(l) \o ExtraFields(l) \o TagFields(skipGlobalTags, tagOrder)

FieldText(f) == f.key \o "=" \o f.text

\* (l *LogMessage) SerializeFields(skipGlobalTags)
SerializeFields(l, skipGlobalTags, tagOrder) ==
    LET fs == SerializeFieldList(l, skipGlobalTags, tagOrder)
    IN  Join([i \in 1..Len(fs) |-> FieldText(fs[i])], " ")

\* a zap.Field: key, constructor used, value
ZapField(k, typ, v) == [key |-> k, typ |-> typ, val |-> v]

\* getZapFields lines 238-271: the fixed attributes
ZapFixedFields(l) ==
       When(l.LoggerContext # "", <<ZapField("rosetta-context", "String", l.LoggerContext)>>)
    \o When(l.Status # 0,         <<ZapField("status", "Int", l.Status)>>)
    \o When(l.Method # "",        <<ZapField("method", "String", l.Method)>>)
    \o When(l.Protocol # "",      <<ZapField("protocol", "String", l.Protocol)>>)
    \o When(l.Path # "",          <<ZapField("path", "String", l.Path)>>)
    \o When(l.Query # "",         <<ZapField("query", "String", l.Query)>>)
    \o When(l.ClientIP # "",      <<ZapField("client-ip", "String", l.ClientIP)>>)
    \o When(l.UserAgent # "",     <<ZapField("user-agent", "String", l.UserAgent)>>)
    \o When(l.StartTime # 0,      <<ZapField("start-time", "String", FormatTime(l.StartTime))>>)
    \o When(l.EndTime # 0,        <<ZapField("end-time", "String", FormatTime(l.EndTime))>>)
    \o When(l.LatencyNanoSeconds # 0,
            << ZapField("latency-unit", "String", "ns"),
               ZapField("latency", "Int64", l.LatencyNanoSeconds) >>)

\* (l *LogMessage) getZapFields(): the extras and the global tags are ranged
\* over as maps, in the orders extraOrder and tagOrder
getZapFields(l, extraOrder, tagOrder) ==
       ZapFixedFields(l)
    \o [i \in 1..Len(extraOrder) |->
            ZapField(extraOrder[i], "Any", l.AdditionalProperties[extraOrder[i]])]
    \o [i \in 1..Len(tagOrder) |->
            ZapField(tagOrder[i], "String", getGlobalTags[tagOrder[i]])]

\* the keys of a field sequence, in order
KeysOf(fs) == [i \in 1..Len(fs) |-> fs[i].key]

(***************************************************************************)
(* Serialization of bounded records: the inputs are drawn in the initial   *)
(* state, the actions apply SerializeFields and getZapFields to them.      *)
(***************************************************************************)
\* at most MaxSet attributes differ from an all-zero or an all-set record
MaxSet == 1

AttrNames ==
    { "ClientIP", "CorrelationId", "StartTime", "EndTime", "LatencyNanoSeconds",
      "LoggerContext", "Method", "Path", "Protocol", "Query", "Status", "UserAgent" }

\* the zero value of each attribute's Go type
ZeroOf ==
    [ ClientIP |-> "", CorrelationId |-> "", StartTime |-> 0, EndTime |-> 0,
      LatencyNanoSeconds |-> 0, LoggerContext |-> "", Method |-> "", Path |-> "",
      Protocol |-> "", Query |-> "", Status |-> 0, UserAgent |-> "" ]

\* a non-zero sample of each attribute
SampleOf ==
    [ ClientIP |-> "10.0.0.1", CorrelationId |-> "c-1", StartTime |-> 1, EndTime |-> 2,
      LatencyNanoSeconds |-> 1500, LoggerContext |-> "ctx", Method |-> "GET",
      Path |-> "/p", Protocol |-> "HTTP", Query |-> "q=1", Status |-> 200,
      UserAgent |-> "curl" ]

SerKeys == {"Zone", "count", "user"}

SampleValues ==
    [ Zone  |-> {StrValue("UTC")},
      count |-> {IntValue(3), NilValue},
      user  |-> {StrValue("a1"), NilValue} ]

\* the AdditionalProperties maps of the sample records
ExtraMaps ==
    UNION { { m \in [S -> UNION {SampleValues[k] : k \in SerKeys}] :
                \A k \in S : m[k] \in SampleValues[k] } : S \in SUBSET SerKeys }

\* the record with the attributes in `set` non-zero, message msg, extras extra
MakeRecord(set, msg, extra) ==
    [ ClientIP           |-> IF "ClientIP" \in set THEN SampleOf.ClientIP ELSE ZeroOf.ClientIP,
      CorrelationId      |-> IF "CorrelationId" \in set THEN SampleOf.CorrelationId ELSE ZeroOf.CorrelationId,
      StartTime          |-> IF "StartTime" \in set THEN SampleOf.StartTime ELSE ZeroOf.StartTime,
      EndTime            |-> IF "EndTime" \in set THEN SampleOf.EndTime ELSE ZeroOf.EndTime,
      LatencyNanoSeconds |-> IF "LatencyNanoSeconds" \in set THEN SampleOf.LatencyNanoSeconds ELSE ZeroOf.LatencyNanoSeconds,
      LoggerContext      |-> IF "LoggerContext" \in set THEN SampleOf.LoggerContext ELSE ZeroOf.LoggerContext,
      Method             |-> IF "Method" \in set THEN SampleOf.Method ELSE ZeroOf.Method,
      Path               |-> IF "Path" \in set THEN SampleOf.Path ELSE ZeroOf.Path,
      Protocol           |-> IF "Protocol" \in set THEN SampleOf.Protocol ELSE ZeroOf.Protocol,
      Query              |-> IF "Query" \in set THEN SampleOf.Query ELSE ZeroOf.Query,
      Status             |-> IF "Status" \in set THEN SampleOf.Status ELSE ZeroOf.Status,
      UserAgent          |-> IF "UserAgent" \in set THEN SampleOf.UserAgent ELSE ZeroOf.UserAgent,
      Message            |-> msg,
      AdditionalProperties |-> extra ]

\* the attribute sets of the sample records: nearly empty or nearly full
AttrSets ==
    { S \in SUBSET AttrNames :
        Cardinality(S) <= MaxSet \/ Cardinality(AttrNames \ S) <= MaxSet }

NoOut == [kind |-> "none"]

InitSer ==
    /\ \E S \in AttrSets, m \in ExtraMaps : rec = MakeRecord(S, "done", m)
    /\ out = [last |-> NoOut, prev |-> NoOut]

IdleSer ==
    /\ rec = NilRecord
    /\ out = [last |-> NoOut, prev |-> NoOut]

TagKeys == DOMAIN getGlobalTags

\* a caller runs rec.SerializeFields(skipGlobalTags)
SerializeCall ==
    \E skip \in BOOLEAN, tagOrder \in MapOrders(TagKeys) :
        /\ out' = [ last |-> [ kind   |-> "plain",
                               skip   |-> skip,
                               fields |-> SerializeFieldList(rec, skip, tagOrder),
                               text   |-> SerializeFields(rec, skip, tagOrder) ],
                    prev |-> out.last ]
        /\ UNCHANGED <<rec, fldVars, rtVars>>

\* a caller runs rec.getZapFields()
GetZapFieldsCall ==
    \E extraOrder \in MapOrders(DOMAIN rec.AdditionalProperties),
       tagOrder \in MapOrders(TagKeys) :
        /\ out' = [ last |-> [ kind   |-> "zap",
                               fields |-> getZapFields(rec, extraOrder, tagOrder) ],
                    prev |-> NoOut ]
        /\ UNCHANGED <<rec, fldVars, rtVars>>

NextSer == SerializeCall \/ GetZapFieldsCall

(***************************************************************************)
(* The logger runtime.                                                     *)
(***************************************************************************)
NumThreads == 2
MaxCalls   == 3

Threads == 1..NumThreads

\* zapcore.Level of each level the package can set, and its String()
ZapLevel == [debug |-> -1, info |-> 0, warn |-> 1, error |-> 2, fatal |-> 5]

Severities == DOMAIN ZapLevel

LevelString(l) == CHOOSE s \in Severities : ZapLevel[s] = l

\* the switch of setLogLevel: whether the name is a case of it, and the
\* zapcore.Level that case stores
Known(l) == [known |-> TRUE, lvl |-> l]
Unknown  == [known |-> FALSE, lvl |-> 0]

ParseLevelDefaultsToInfo(level) ==
    CASE level = "DEBUG"                       -> Known(ZapLevel.debug)
      [] level = "INFO"                        -> Known(ZapLevel.info)
      [] level = "WARN" \/ level = "WARNING"   -> Known(ZapLevel.warn)
      [] level = "ERROR"                       -> Known(ZapLevel.error)
      [] level = "FATAL"                       -> Known(ZapLevel.fatal)
      [] OTHER                                 -> Known(ZapLevel.info)

ParseLevel(level) ==
    CASE level = "DEBUG"                       -> Known(ZapLevel.debug)
      [] level = "INFO"                        -> Known(ZapLevel.info)
      [] level = "WARN" \/ level = "WARNING"   -> Known(ZapLevel.warn)
      [] level = "ERROR"                       -> Known(ZapLevel.error)
      [] level = "FATAL"                       -> Known(ZapLevel.fatal)
      [] OTHER                                 -> Unknown

\* the switch of addStackTrace with a case for FatalLevel
ParseStackLevelWithFatal(logLevel) ==
    CASE logLevel = "DEBUG"                          -> Known(ZapLevel.debug)
      [] logLevel = "INFO"                           -> Known(ZapLevel.info)
      [] logLevel = "WARN" \/ logLevel = "WARNING"   -> Known(ZapLevel.warn)
      [] logLevel = "ERROR"                          -> Known(ZapLevel.error)
      [] logLevel = "FATAL"                          -> Known(ZapLevel.fatal)
      [] OTHER                                       -> Unknown

\* the switch of addStackTrace
ParseStackLevel(logLevel) ==
    CASE logLevel = "DEBUG"                          -> Known(ZapLevel.debug)
      [] logLevel = "INFO"                           -> Known(ZapLevel.info)
      [] logLevel = "WARN" \/ logLevel = "WARNING"   -> Known(ZapLevel.warn)
      [] logLevel = "ERROR"                          -> Known(ZapLevel.error)
      [] OTHER                                       -> Unknown

\* strconv.ParseBool: the value, and whether it returned an error
ParseBool(str) ==
    IF str \in {"1", "t", "T", "TRUE", "true", "True"} THEN [val |-> TRUE, err |-> FALSE]
    ELSE IF str \in {"0", "f", "F", "FALSE", "false", "False"} THEN [val |-> FALSE, err |-> FALSE]
    ELSE [val |-> FALSE, err |-> TRUE]

\* logEnv == development || logEnv == dev
IsDevelopment(e) == e = "DEVELOPMENT" \/ e = "DEV"

\* getConfigBasedOnLoggerEnvironment: the zap.Config chosen, as the initial
\* level and the stack-trace level zap gives that configuration
ConfigFor(e) ==
    IF IsDevelopment(e)
    THEN [level |-> ZapLevel.debug, stack |-> ZapLevel.warn]
    ELSE [level |-> ZapLevel.info,  stack |-> ZapLevel.error]

\* the names callers pass to SetLevel and AddStackTrace
LevelNames == {"DEBUG", "ERROR", "FATAL", "TRACE"}

\* the environments the process may start in
\* LOGGER_ENVIRONMENT, LOG_LEVEL, NoStacktrace, and whether zapConfig.Build
\* fails (LOG_OUTPUT_FILE names a file that cannot be opened)
Environment(mode, level, noStack, buildFails) ==
    [mode |-> mode, level |-> level, noStack |-> noStack, buildFails |-> buildFails]

Environments ==
    { Environment("PRODUCTION", "", "", FALSE),
      Environment("DEV", "TRACE", "false", FALSE),
      Environment("STAGING", "ERROR", "true", FALSE),
      Environment("PRODUCTION", "", "", TRUE) }

\* the records callers dispatch: nil, and a message with an attribute and a field
RtRecords ==
    { NilRecord,
      MakeRecord({"Status"}, "served", [k \in {"user"} |-> StrValue("a1")]) }

\* the locals of a call in progress
NoCall == [ op |-> "none", name |-> "", sev |-> "", rec |-> NilRecord,
            lg |-> NilLogger, cell |-> 0, opt |-> {}, prints |-> <<>>,
            expect |-> {}, raced |-> FALSE ]

\* how a call ended: its result, what it printed, the level name it was
\* given, and for a dispatch the severity, whether the record was nil, the threshold the zap core read
\* and the entries it wrote
NoOutcome == [ ret |-> "none", prints |-> <<>>, op |-> "none", name |-> "", nilRec |-> FALSE,
               sev |-> "", thr |-> 0, wrote |-> <<>>, expect |-> {} ]

InitRt ==
    /\ env \in Environments
    /\ logEnv = ""
    /\ logLvl = 0
    /\ cells = [c \in {0} |-> ZapLevel.info]
    /\ zapLogger = NilLogger
    /\ once = "fresh"
    /\ builds = 0
    /\ nextId = 1
    /\ pc = [t \in Threads |-> "idle"]
    /\ cur = [t \in Threads |-> NoCall]
    /\ outcome = NoOutcome
    /\ sink = <<>>
    /\ exited = FALSE
    /\ calls = 0
    /\ hist = [last |-> {}, ovl |-> {}, requested |-> {}, got |-> {}]

IdleRt ==
    /\ env = Environment("PRODUCTION", "", "", FALSE)
    /\ logEnv = ""
    /\ logLvl = 0
    /\ cells = [c \in {0} |-> ZapLevel.info]
    /\ zapLogger = NilLogger
    /\ once = "fresh"
    /\ builds = 0
    /\ nextId = 1
    /\ pc = [t \in Threads |-> "idle"]
    /\ cur = [t \in Threads |-> NoCall]
    /\ outcome = NoOutcome
    /\ sink = <<>>
    /\ exited = FALSE
    /\ calls = 0
    /\ hist = [last |-> {}, ovl |-> {}, requested |-> {}, got |-> {}]

\* a thread may start a call
CanStart(t) == pc[t] = "idle" /\ ~exited /\ calls < MaxCalls

\* the threads inside setLogLevel, between reading logLvl and storing
Setters == {t \in Threads : pc[t] = "store"}

\* GetLevel: getLogLevel().String()
GetLevel == LevelString(cells[logLvl])

\* zapcore.LevelEnabler of an AtomicLevel: lvl is logged at threshold thr
EnabledInverted(lvl, thr) == lvl <= thr

Enabled(lvl, thr) == lvl >= thr

\* what the zap core writes for one accepted entry: level, message, fields,
\* and whether a stack trace is attached
LogEntry(sev, msg, fields, lg) ==
    [ level  |-> sev,
      msg    |-> msg,
      fields |-> fields,
      trace  |-> ZapLevel[sev] >= lg.stack ]

nilLogMessage == "rosetta is called with nil log message"

\* the call of thread t ends, by a return or by a panic: its locals are gone
Return(t, ret) ==
    /\ pc' = [pc EXCEPT ![t] = "idle"]
    /\ outcome' = [NoOutcome EXCEPT !.ret = ret, !.prints = cur[t].prints,
                                    !.op = cur[t].op, !.name = cur[t].name]
    /\ cur' = [cur EXCEPT ![t] = NoCall]

\* a call that ends in its first step
ReturnAtOnce(t, op, name, ret, prints) ==
    /\ pc' = [pc EXCEPT ![t] = "idle"]
    /\ outcome' = [NoOutcome EXCEPT !.ret = ret, !.prints = prints, !.op = op,
                                    !.name = name]
    /\ cur' = [cur EXCEPT ![t] = NoCall]

\* a dispatch ends after the zap method ran (or panicked on a nil logger)
ReturnDispatch(t, ret, thr, wrote) ==
    /\ pc' = [pc EXCEPT ![t] = "idle"]
    /\ outcome' = [NoOutcome EXCEPT !.ret = ret, !.op = "dispatch",
                                    !.nilRec = (cur[t].rec = NilRecord),
                                    !.sev = cur[t].sev, !.thr = thr, !.wrote = wrote,
                                    !.expect = cur[t].expect]
    /\ cur' = [cur EXCEPT ![t] = NoCall]

\* ---- xxxMessage(logMessage): a caller dispatches rec at severity sev ----
StartDispatch(t) ==
    \E sev \in Severities, r \in RtRecords :
        /\ CanStart(t)
        /\ calls' = calls + 1
        /\ cur' = [cur EXCEPT ![t] =
                     [NoCall EXCEPT !.op = "dispatch", !.sev = sev,
                                    !.rec = r, !.raced = (once # "done"),
                                    !.expect = IF Setters = {} THEN hist.last ELSE {}]]
        /\ pc' = [pc EXCEPT ![t] = "get"]
        /\ UNCHANGED <<env, logEnv, logLvl, cells, zapLogger, once, builds, nextId,
                       outcome, sink, exited, hist, serVars, fldVars>>

\* ---- GetZapLogger: initZapLoggerOnce.Do(...) ----
OnceMayRunTwice(o) == o # "done"

OnceMustRun(o) == o = "fresh"

\* the first caller enters buildZapLogger; the others wait in Do
OnceEnter(t) ==
    /\ pc[t] = "get" /\ ~exited
    /\ OnceMustRun(once)
    /\ once' = "running"
    /\ builds' = builds + 1
    /\ pc' = [pc EXCEPT ![t] = "build1"]
    /\ UNCHANGED <<env, logEnv, logLvl, cells, zapLogger, nextId, cur, outcome,
                   sink, exited, calls, hist, serVars, fldVars>>

\* buildZapLogger lines 82-84: the configuration, and logLvl = zapConfig.Level
BuildConfig(t) ==
    /\ pc[t] = "build1" /\ ~exited
    /\ logEnv' = env.mode
    /\ logLvl' = 1
    /\ cells' = [c \in {0, 1} |-> IF c = 0 THEN cells[0] ELSE ConfigFor(env.mode).level]
    /\ pc' = [pc EXCEPT ![t] = "build2"]
    /\ UNCHANGED <<env, zapLogger, once, builds, nextId, cur, outcome, sink, exited,
                   calls, hist, serVars, fldVars>>

\* buildZapLogger with the call of setLogLevelFromEnvironment left out
BuildEnvLevelSkipsOverride(t) ==
    /\ pc[t] = "build2" /\ ~exited
    /\ pc' = [pc EXCEPT ![t] = "build3"]
    /\ UNCHANGED <<env, logEnv, logLvl, cells, zapLogger, once, builds, nextId, cur, outcome,
                   sink, exited, calls, hist, serVars, fldVars>>

\* buildZapLogger line 87: setLogLevelFromEnvironment, its error ignored
BuildEnvLevel(t) ==
    /\ pc[t] = "build2" /\ ~exited
    /\ cells' = IF ParseLevel(env.level).known
                THEN [cells EXCEPT ![logLvl] = ParseLevel(env.level).lvl]
                ELSE cells
    /\ pc' = [pc EXCEPT ![t] = "build3"]
    /\ UNCHANGED <<env, logEnv, logLvl, zapLogger, once, builds, nextId, cur, outcome,
                   sink, exited, calls, hist, serVars, fldVars>>

\* buildZapLogger lines 89-103: zapConfig.Build, panic on error; Do is over
BuildFinish(t) ==
    /\ pc[t] = "build3" /\ ~exited
    /\ once' = "done"
    /\ IF env.buildFails
       THEN /\ Return(t, "panic")
            /\ UNCHANGED <<zapLogger, nextId>>
       ELSE /\ zapLogger' = [id |-> nextId, cell |-> 1, stack |-> ConfigFor(logEnv).stack]
            /\ nextId' = nextId + 1
            /\ pc' = [pc EXCEPT ![t] = "get"]
            /\ UNCHANGED <<outcome, cur>>
    /\ UNCHANGED <<env, logEnv, logLvl, cells, builds, sink, exited, calls, hist,
                   serVars, fldVars>>

\* GetZapLogger line 77: Do has returned, return zapLogger
GetReturn(t) ==
    /\ pc[t] = "get" /\ ~exited
    /\ once = "done"
    /\ cur' = [cur EXCEPT ![t].lg = zapLogger]
    /\ pc' = [pc EXCEPT ![t] = IF cur[t].op = "dispatch" THEN "call" ELSE "swap"]
    /\ hist' = [hist EXCEPT !.got = IF cur[t].raced THEN @ \cup {zapLogger.id} ELSE @]
    /\ UNCHANGED <<env, logEnv, logLvl, cells, zapLogger, once, builds, nextId, outcome,
                   sink, exited, calls, serVars, fldVars>>

\* ---- callZapLogger lines 222-232 ----
\* callZapLogger calling SerializeFields(false) in development mode
FormattedWithTags(r, e, extraOrder, tagOrder) ==
    IF IsDevelopment(e)
    THEN [msg |-> r.Message \o " " \o SerializeFields(r, FALSE, tagOrder), fields |-> <<>>]
    ELSE [msg |-> r.Message, fields |-> getZapFields(r, extraOrder, tagOrder)]

\* the message and fields handed to logCaller for a non-nil record
Formatted(r, e, extraOrder, tagOrder) ==
    IF IsDevelopment(e)
    THEN [msg |-> r.Message \o " " \o SerializeFields(r, TRUE, tagOrder), fields |-> <<>>]
    ELSE [msg |-> r.Message, fields |-> getZapFields(r, extraOrder, tagOrder)]

\* the zap logger method: write the entry if the core's level, read from the
\* level cells c, enables it
WriteWith(c, lg, sev, msg, fields) ==
    IF Enabled(ZapLevel[sev], c[lg.cell])
    THEN <<LogEntry(sev, msg, fields, lg)>>
    ELSE <<>>

Written(lg, sev, msg, fields) == WriteWith(cells, lg, sev, msg, fields)

\* line 223: the zap method a nil record is logged with, whatever the
\* entry point's own severity sev
NilSeverityKeepsEntryPoint(sev) == sev

NilSeverity(sev) == "error"

\* a nil record: logCaller = GetZapLogger().Error; logCaller(nilLogMessage);
\* then GetZapLogger().Sync() and the return
CallNil(t) ==
    /\ pc[t] = "call" /\ ~exited
    /\ cur[t].rec = NilRecord
    /\ IF zapLogger = NilLogger
       THEN /\ ReturnDispatch(t, "panic", 0, <<>>)
            /\ UNCHANGED sink
       ELSE LET w == Written(zapLogger, NilSeverity(cur[t].sev), nilLogMessage, <<>>)
            IN  /\ sink' = sink \o w
                /\ ReturnDispatch(t, "returned", cells[zapLogger.cell], w)
    /\ UNCHANGED <<env, logEnv, logLvl, cells, zapLogger, once, builds, nextId,
                   exited, calls, hist, serVars, fldVars>>

\* zap's Fatal calls os.Exit(1) once the entry is written; the other methods
\* return
TerminatesNever(sev) == FALSE

Terminates(sev) == sev = "fatal"

\* a record: format it for the mode and call the method bound by xxxMessage;
\* zap's Fatal ends the process after the write, the others go on to
\* GetZapLogger().Sync() and the return
CallRecord(t) ==
    /\ pc[t] = "call" /\ ~exited
    /\ cur[t].rec # NilRecord
    /\ IF cur[t].lg = NilLogger
       THEN /\ ReturnDispatch(t, "panic", 0, <<>>)
            /\ UNCHANGED <<sink, exited>>
       ELSE \E extraOrder \in MapOrders(DOMAIN cur[t].rec.AdditionalProperties),
               tagOrder \in MapOrders(TagKeys) :
              LET f == Formatted(cur[t].rec, logEnv, extraOrder, tagOrder)
                  w == Written(cur[t].lg, cur[t].sev, f.msg, f.fields)
              IN  /\ sink' = sink \o w
                  /\ exited' = Terminates(cur[t].sev)
                  /\ ReturnDispatch(t, IF Terminates(cur[t].sev) THEN "exit" ELSE "returned",
                                    cells[cur[t].lg.cell], w)
    /\ UNCHANGED <<env, logEnv, logLvl, cells, zapLogger, once, builds, nextId,
                   calls, hist, serVars, fldVars>>

\* ---- SetLevel(level) = setLogLevel(level) ----
\* an unknown name: the default case returns an error
SetLevelUnknown(t) ==
    \E name \in LevelNames :
        /\ CanStart(t)
        /\ ~ParseLevel(name).known
        /\ calls' = calls + 1
        /\ ReturnAtOnce(t, "SetLevel", name, "error", <<>>)
        /\ UNCHANGED <<env, logEnv, logLvl, cells, zapLogger, once, builds, nextId,
                       sink, exited, hist, serVars, fldVars>>

\* a known name: logLvl is read (the AtomicLevel is copied as the receiver)
StartSetLevel(t) ==
    \E name \in LevelNames :
        /\ CanStart(t)
        /\ ParseLevel(name).known
        /\ calls' = calls + 1
        /\ cur' = [u \in Threads |->
                     IF u = t
                     THEN [NoCall EXCEPT !.op = "SetLevel",
                                         !.name = name, !.cell = logLvl]
                     ELSE IF cur[u].op = "dispatch" /\ pc[u] # "idle"
                          THEN [cur[u] EXCEPT !.expect = {}]
                          ELSE cur[u]]
        /\ pc' = [pc EXCEPT ![t] = "store"]
        /\ hist' = [hist EXCEPT
                      !.ovl = IF Setters = {} THEN hist.ovl ELSE hist.ovl \cup Setters \cup {t},
                      !.requested = hist.requested \cup {ParseLevel(name).lvl}]
        /\ UNCHANGED <<env, logEnv, logLvl, cells, zapLogger, once, builds, nextId,
                       outcome, sink, exited, serVars, fldVars>>

\* AtomicLevel.SetLevel: the atomic store into the cell that was read
StoreLevel(t) ==
    /\ pc[t] = "store" /\ ~exited
    /\ cells' = [cells EXCEPT ![cur[t].cell] = ParseLevel(cur[t].name).lvl]
    /\ hist' = [hist EXCEPT
                  !.last = IF t \in hist.ovl THEN {} ELSE {ParseLevel(cur[t].name).lvl},
                  !.ovl = hist.ovl \ {t}]
    /\ Return(t, "nil")
    /\ UNCHANGED <<env, logEnv, logLvl, zapLogger, once, builds, nextId,
                   sink, exited, calls, serVars, fldVars>>

\* ---- GetLevel() ----
GetLevelCall(t) ==
    /\ CanStart(t)
    /\ calls' = calls + 1
    /\ ReturnAtOnce(t, "GetLevel", "", GetLevel, <<>>)
    /\ UNCHANGED <<env, logEnv, logLvl, cells, zapLogger, once, builds, nextId,
                   sink, exited, hist, serVars, fldVars>>

\* ---- AddStackTrace(logLevel) = addStackTrace(logLevel) ----
\* lines 125-129: what is printed before the switch
StackPrints ==
    <<"value of NoStacktrace">>
    \o When(ParseBool(env.noStack).err, <<"cannot parse bool value">>)

\* lines 131-144: a call that goes on to replace the logger
StartAddStackTrace(t) ==
    \E name \in LevelNames :
        /\ CanStart(t)
        /\ ParseBool(env.noStack).val \/ ParseStackLevel(name).known
        /\ calls' = calls + 1
        /\ cur' = [cur EXCEPT ![t] =
                     [NoCall EXCEPT !.op = "AddStackTrace",
                                    !.name = name, !.raced = (once # "done"),
                                    !.prints = StackPrints,
                                    !.opt = IF ParseBool(env.noStack).val THEN {}
                                            ELSE {ParseStackLevel(name).lvl}]]
        /\ pc' = [pc EXCEPT ![t] = "get"]
        /\ UNCHANGED <<env, logEnv, logLvl, cells, zapLogger, once, builds, nextId,
                       outcome, sink, exited, hist, serVars, fldVars>>

\* lines 145-146: the default case prints and returns
AddStackTraceUnknown(t) ==
    \E name \in LevelNames :
        /\ CanStart(t)
        /\ ~ParseBool(env.noStack).val /\ ~ParseStackLevel(name).known
        /\ calls' = calls + 1
        /\ ReturnAtOnce(t, "AddStackTrace", name, "returned",
                        StackPrints \o <<"Cannot add stack trace for level">>)
        /\ UNCHANGED <<env, logEnv, logLvl, cells, zapLogger, once, builds, nextId,
                       sink, exited, hist, serVars, fldVars>>

\* zapLogger = GetZapLogger().WithOptions(...): the clone is stored
SwapLogger(t) ==
    /\ pc[t] = "swap" /\ ~exited
    /\ IF cur[t].lg = NilLogger
       THEN /\ Return(t, "panic")
            /\ UNCHANGED <<zapLogger, nextId, hist>>
       ELSE /\ zapLogger' = [ id    |-> nextId,
                              cell  |-> cur[t].lg.cell,
                              stack |-> IF cur[t].opt = {} THEN cur[t].lg.stack
                                        ELSE CHOOSE l \in cur[t].opt : TRUE ]
            /\ nextId' = nextId + 1
            /\ UNCHANGED hist
            /\ Return(t, "returned")
    /\ UNCHANGED <<env, logEnv, logLvl, cells, once, builds, sink, exited, calls,
                   serVars, fldVars>>

NextRt ==
    \E t \in Threads :
        \/ StartDispatch(t)
        \/ OnceEnter(t)
        \/ BuildConfig(t)
        \/ BuildEnvLevel(t)
        \/ BuildFinish(t)
        \/ GetReturn(t)
        \/ CallNil(t)
        \/ CallRecord(t)
        \/ SetLevelUnknown(t)
        \/ StartSetLevel(t)
        \/ StoreLevel(t)
        \/ GetLevelCall(t)
        \/ StartAddStackTrace(t)
        \/ AddStackTraceUnknown(t)
        \/ SwapLogger(t)

(***************************************************************************)
(* Fields maps.                                                            *)
(***************************************************************************)
\* at most MaxRefs map objects are allocated
MaxRefs == 3

FldKeys == {"error", "user"}
FldVals == {StrValue("a1"), IntValue(3)}

\* the Fields literals callers write
FldMaps == UNION { [S -> FldVals] : S \in SUBSET FldKeys }

Refs == 1..Len(heap)

\* a Go error value: nil, or an error with its Error() string
NilError == [isNil |-> TRUE]
ErrorOf(msg) == [isNil |-> FALSE, msg |-> msg]

NoFieldsCall == [op |-> "none", recv |-> 0, arg |-> 0, key |-> "", err |-> NilError,
                 res |-> 0, before |-> <<>>]

\* no *entry yet: entry is the reference of the builder's value map, seed the
\* map WithFields was given, acc the pairs given to the builder so far (the
\* latest value of each key), recs the records its terminal calls dispatched
NoBuilder == [entry |-> 0, seed |-> 0, acc |-> [k \in {} |-> NilValue], recs |-> <<>>]

\* the maps the caller holds: all but the builder's own and the records'
Held == Refs \ ({bld.entry} \cup {bld.recs[i].props : i \in 1..Len(bld.recs)})

\* the loop `for k, v := range src { dst[k] = v }`
CopyInto(dst, src) ==
    [k \in DOMAIN dst \cup DOMAIN src |-> IF k \in DOMAIN src THEN src[k] ELSE dst[k]]

\* dst[name] = value
Put(dst, name, value) ==
    [k \in DOMAIN dst \cup {name} |-> IF k = name THEN value ELSE dst[k]]

EmptyFields == [k \in {} |-> NilValue]

\* the result of a call on heap h: the heap it leaves and the map it returns
Allocated(h, m) == [heap |-> Append(h, m), res |-> Len(h) + 1]

\* (fields Fields) CloneWith(name, value)
CloneWith(h, fields, name, value) ==
    Allocated(h, Put(CopyInto(EmptyFields, h[fields]), name, value))

\* (fields Fields) CloneWithAll(otherFields), with the receiver's entries
\* written last
CloneWithAllReceiverWins(h, fields, otherFields) ==
    Allocated(h, CopyInto(CopyInto(EmptyFields, h[otherFields]), h[fields]))

\* (fields Fields) CloneWithAll(otherFields)
CloneWithAll(h, fields, otherFields) ==
    Allocated(h, CopyInto(CopyInto(EmptyFields, h[fields]), h[otherFields]))

\* (fields Fields) ToMap()
ToMap(h, fields) == Allocated(h, CopyInto(EmptyFields, h[fields]))

InitFld ==
    /\ heap = <<>>
    /\ fcall = NoFieldsCall
    /\ bld = NoBuilder

IdleFld ==
    /\ heap = <<>>
    /\ fcall = NoFieldsCall
    /\ bld = NoBuilder

\* a caller writes a Fields literal
NewFields ==
    /\ Len(heap) < MaxRefs
    /\ \E m \in FldMaps :
          /\ heap' = Append(heap, m)
          /\ fcall' = [NoFieldsCall EXCEPT !.op = "literal", !.res = Len(heap) + 1,
                                           !.before = heap]
    /\ UNCHANGED <<bld, serVars, rtVars>>

\* a caller assigns fields[k] = v on a map it holds
AssignKey ==
    \E a \in Refs, k \in FldKeys, v \in FldVals :
        /\ heap' = [heap EXCEPT ![a] = Put(heap[a], k, v)]
        /\ fcall' = [NoFieldsCall EXCEPT !.op = "assign", !.recv = a, !.key = k,
                                         !.before = heap]
        /\ UNCHANGED <<bld, serVars, rtVars>>

CloneWithCall ==
    /\ Len(heap) < MaxRefs
    /\ \E a \in Refs, k \in FldKeys, v \in FldVals :
          LET r == CloneWith(heap, a, k, v)
          IN  /\ heap' = r.heap
              /\ fcall' = [NoFieldsCall EXCEPT !.op = "CloneWith", !.recv = a, !.key = k,
                                               !.res = r.res, !.before = heap]
    /\ UNCHANGED <<bld, serVars, rtVars>>

CloneWithAllCall ==
    /\ Len(heap) < MaxRefs
    /\ \E a \in Refs, b \in Refs :
          LET r == CloneWithAll(heap, a, b)
          IN  /\ heap' = r.heap
              /\ fcall' = [NoFieldsCall EXCEPT !.op = "CloneWithAll", !.recv = a, !.arg = b,
                                               !.res = r.res, !.before = heap]
    /\ UNCHANGED <<bld, serVars, rtVars>>

ToMapCall ==
    /\ Len(heap) < MaxRefs
    /\ \E a \in Refs :
          LET r == ToMap(heap, a)
          IN  /\ heap' = r.heap
              /\ fcall' = [NoFieldsCall EXCEPT !.op = "ToMap", !.recv = a,
                                               !.res = r.res, !.before = heap]
    /\ UNCHANGED <<bld, serVars, rtVars>>

NextFld == NewFields \/ AssignKey \/ CloneWithCall \/ CloneWithAllCall \/ ToMapCall

(***************************************************************************)
(* The builder: *entry, its With... methods and its terminal calls, used   *)
(* by one thread.                                                          *)
(***************************************************************************)
\* the code that uses the builder takes at most MaxBuilderCalls steps: calls
\* of the builder's entry points and methods, map literals and assignments
MaxBuilderCalls == 3

Errors == {NilError, ErrorOf("boom")}

\* (e *entry) WithField where a key already set keeps its value
EntryWithFieldKeepsFirst(h, e, key, value) ==
    [h EXCEPT ![e] = IF key \in DOMAIN h[e] THEN h[e] ELSE Put(h[e], key, value)]

\* (e *entry) WithField(key, value): e.value[key] = value
EntryWithField(h, e, key, value) == [h EXCEPT ![e] = Put(h[e], key, value)]

\* (e *entry) WithFields(fields): e.value[k] = v for each pair of fields
EntryWithFields(h, e, fields) == [h EXCEPT ![e] = CopyInto(h[e], h[fields])]

\* (e *entry) WithError that stores the formatted nil as well
EntryWithErrorAlways(h, e, err) ==
    [h EXCEPT ![e] = Put(h[e], "error", StrValue(IF err.isNil THEN "<nil>" ELSE err.msg))]

\* (e *entry) WithError(err): e.value["error"] = err.Error() unless err is nil
EntryWithError(h, e, err) ==
    IF err.isNil THEN h ELSE [h EXCEPT ![e] = Put(h[e], "error", StrValue(err.msg))]

\* WithField(key, value): &entry{value: Fields{key: value}}
WithField(h, key, value) == Allocated(h, Put(EmptyFields, key, value))

\* WithFields that keeps the caller's map as the entry's value
WithFieldsSharesSeed(h, fields) == [heap |-> h, res |-> fields]

\* WithFields(fields): a new entry with a copy of fields
WithFields(h, fields) == Allocated(h, CopyInto(EmptyFields, h[fields]))

\* WithError(err): a new empty entry, then newEntry.WithError(err)
WithError(h, err) ==
    LET a == Allocated(h, EmptyFields)
    IN  [heap |-> EntryWithError(a.heap, a.res, err), res |-> a.res]

\* storeFields that hands the entry's own map to the record
storeFieldsSharesMap(h, e, msg) == [heap |-> h, msg |-> msg, props |-> e]

\* (e *entry) storeFields(msg): a LogMessage with the message and a new
\* AdditionalProperties map holding the entry's pairs
storeFields(h, e, msg) ==
    LET a == Allocated(h, CopyInto(EmptyFields, h[e]))
    IN  [heap |-> a.heap, msg |-> msg, props |-> a.res]

\* fmt.Sprintf(format, args...), the format given as its literal pieces and
\* "%v" verbs
RECURSIVE Sprintf(_, _)
Sprintf(format, args) ==
    IF format = <<>> THEN ""
    ELSE IF Head(format) = "%v"
         THEN IF args = <<>>
              THEN "%!v(MISSING)" \o Sprintf(Tail(format), args)
              ELSE FormatValue(Head(args)) \o Sprintf(Tail(format), Tail(args))
         ELSE Head(format) \o Sprintf(Tail(format), args)

\* the terminal methods of *entry: the xxxMessage each calls, and whether it
\* formats its message with Sprintf
TerminalMethods ==
       ("Info"    :> [sev |-> "info",  fmt |-> FALSE]) @@ ("Infof"    :> [sev |-> "info",  fmt |-> TRUE])
    @@ ("Debug"   :> [sev |-> "debug", fmt |-> FALSE]) @@ ("Debugf"   :> [sev |-> "debug", fmt |-> TRUE])
    @@ ("Error"   :> [sev |-> "error", fmt |-> FALSE]) @@ ("Errorf"   :> [sev |-> "error", fmt |-> TRUE])
    @@ ("Warn"    :> [sev |-> "warn",  fmt |-> FALSE]) @@ ("Warnf"    :> [sev |-> "warn",  fmt |-> TRUE])
    @@ ("Warning" :> [sev |-> "warn",  fmt |-> FALSE]) @@ ("Warningf" :> [sev |-> "warn",  fmt |-> TRUE])
    @@ ("Print"   :> [sev |-> "info",  fmt |-> FALSE]) @@ ("Printf"   :> [sev |-> "info",  fmt |-> TRUE])
    @@ ("Fatal"   :> [sev |-> "fatal", fmt |-> FALSE]) @@ ("Fatalf"   :> [sev |-> "fatal", fmt |-> TRUE])

\* what the callers of the terminal methods pass
SampleMessage == "done"
SampleFormat  == <<"done ", "%v">>
SampleArgs    == <<IntValue(3)>>

\* the environments the builder is used in
BuilderEnvironments ==
    { Environment("PRODUCTION", "", "", FALSE),
      Environment("DEV", "ERROR", "", FALSE) }

\* GetZapLogger called by the only thread: what it leaves in the package
\* variables (buildZapLogger has run if the once was fresh)
AfterGet ==
    IF once = "done"
    THEN [ logEnv |-> logEnv, logLvl |-> logLvl, cells |-> cells,
           zapLogger |-> zapLogger, nextId |-> nextId, builds |-> builds ]
    ELSE LET lvl == IF ParseLevel(env.level).known THEN ParseLevel(env.level).lvl
                    ELSE ConfigFor(env.mode).level
         IN  [ logEnv |-> env.mode,
               logLvl |-> 1,
               cells  |-> [c \in {0, 1} |-> IF c = 0 THEN cells[0] ELSE lvl],
               zapLogger |-> IF env.buildFails THEN zapLogger
                             ELSE [id |-> nextId, cell |-> 1,
                                   stack |-> ConfigFor(env.mode).stack],
               nextId |-> IF env.buildFails THEN nextId ELSE nextId + 1,
               builds |-> builds + 1 ]

\* a builder may be created
CanCreate == bld.entry = 0 /\ ~exited /\ Len(heap) < MaxRefs /\ calls < MaxBuilderCalls

\* a method of the builder may be called
CanChain == bld.entry # 0 /\ ~exited /\ calls < MaxBuilderCalls

\* the package variables a With... call leaves alone
WithFrame == <<env, logEnv, logLvl, cells, zapLogger, once, builds, nextId, pc, cur,
               outcome, sink, exited, hist>>

\* the caller writes a Fields literal to pass to WithFields
NewSeed ==
    /\ ~exited /\ Len(heap) < MaxRefs /\ calls < MaxBuilderCalls
    /\ calls' = calls + 1
    /\ \E m \in FldMaps :
          /\ heap' = Append(heap, m)
          /\ fcall' = [NoFieldsCall EXCEPT !.op = "literal", !.res = Len(heap) + 1,
                                           !.before = heap]
    /\ UNCHANGED <<bld, serVars, WithFrame>>

\* the caller assigns fields[k] = v on a map it holds
AssignSeedKey ==
    /\ ~exited /\ calls < MaxBuilderCalls
    /\ calls' = calls + 1
    /\ \E a \in Held, k \in FldKeys, v \in FldVals :
          /\ heap' = [heap EXCEPT ![a] = Put(heap[a], k, v)]
          /\ fcall' = [NoFieldsCall EXCEPT !.op = "assign", !.recv = a, !.key = k,
                                           !.before = heap]
    /\ UNCHANGED <<bld, serVars, WithFrame>>

\* the package-level WithField(key, value)
WithFieldCall ==
    /\ CanCreate
    /\ \E k \in FldKeys, v \in FldVals :
          LET r == WithField(heap, k, v)
          IN  /\ heap' = r.heap
              /\ bld' = [NoBuilder EXCEPT !.entry = r.res, !.acc = Put(EmptyFields, k, v)]
              /\ fcall' = [NoFieldsCall EXCEPT !.op = "WithField", !.key = k,
                                               !.res = r.res, !.before = heap]
    /\ calls' = calls + 1
    /\ UNCHANGED <<serVars, WithFrame>>

\* the package-level WithFields(fields)
WithFieldsCall ==
    /\ CanCreate
    /\ \E f \in Held :
          LET r == WithFields(heap, f)
          IN  /\ heap' = r.heap
              /\ bld' = [NoBuilder EXCEPT !.entry = r.res, !.seed = f, !.acc = heap[f]]
              /\ fcall' = [NoFieldsCall EXCEPT !.op = "WithFields", !.arg = f,
                                               !.res = r.res, !.before = heap]
    /\ calls' = calls + 1
    /\ UNCHANGED <<serVars, WithFrame>>

\* the package-level WithError(err)
WithErrorCall ==
    /\ CanCreate
    /\ \E err \in Errors :
          LET r == WithError(heap, err)
          IN  /\ heap' = r.heap
              /\ bld' = [NoBuilder EXCEPT
                           !.entry = r.res,
                           !.acc = IF err.isNil THEN EmptyFields
                                   ELSE Put(EmptyFields, "error", StrValue(err.msg))]
              /\ fcall' = [NoFieldsCall EXCEPT !.op = "WithError", !.err = err,
                                               !.res = r.res, !.before = heap]
    /\ calls' = calls + 1
    /\ UNCHANGED <<serVars, WithFrame>>

\* e.WithField(key, value)
EntryWithFieldCall ==
    /\ CanChain
    /\ \E k \in FldKeys, v \in FldVals :
          /\ heap' = EntryWithField(heap, bld.entry, k, v)
          /\ bld' = [bld EXCEPT !.acc = Put(@, k, v)]
          /\ fcall' = [NoFieldsCall EXCEPT !.op = "entry.WithField", !.recv = bld.entry,
                                           !.key = k, !.before = heap]
    /\ calls' = calls + 1
    /\ UNCHANGED <<serVars, WithFrame>>

\* e.WithFields(fields)
EntryWithFieldsCall ==
    /\ CanChain
    /\ \E f \in Held :
          /\ heap' = EntryWithFields(heap, bld.entry, f)
          /\ bld' = [bld EXCEPT !.acc = CopyInto(@, heap[f])]
          /\ fcall' = [NoFieldsCall EXCEPT !.op = "entry.WithFields", !.recv = bld.entry,
                                           !.arg = f, !.before = heap]
    /\ calls' = calls + 1
    /\ UNCHANGED <<serVars, WithFrame>>

\* e.WithError(err)
EntryWithErrorCall ==
    /\ CanChain
    /\ \E err \in Errors :
          /\ heap' = EntryWithError(heap, bld.entry, err)
          /\ bld' = [bld EXCEPT !.acc = IF err.isNil THEN @
                                        ELSE Put(@, "error", StrValue(err.msg))]
          /\ fcall' = [NoFieldsCall EXCEPT !.op = "entry.WithError", !.recv = bld.entry,
                                           !.err = err, !.before = heap]
    /\ calls' = calls + 1
    /\ UNCHANGED <<serVars, WithFrame>>

\* e.Info(msg), e.Infof(format, args...), ...: storeFields, then xxxMessage
\* with the record: GetZapLogger, callZapLogger, Sync
Terminal ==
    /\ CanChain /\ Len(heap) < MaxRefs
    /\ calls' = calls + 1
    /\ \E method \in DOMAIN TerminalMethods :
          LET m   == TerminalMethods[method]
              msg == IF m.fmt THEN Sprintf(SampleFormat, SampleArgs) ELSE SampleMessage
              st  == storeFields(heap, bld.entry, msg)
              r   == MakeRecord({}, st.msg, st.heap[st.props])
              g   == AfterGet
              end == [NoOutcome EXCEPT !.op = "dispatch", !.name = method, !.sev = m.sev]
          IN  /\ heap' = st.heap
              /\ fcall' = [NoFieldsCall EXCEPT !.op = "terminal", !.key = method,
                                               !.recv = bld.entry, !.res = st.props,
                                               !.before = heap]
              /\ bld' = [bld EXCEPT !.recs = Append(@, [msg |-> st.msg, sev |-> m.sev,
                                                        props |-> st.props, at |-> bld.acc])]
              /\ logEnv' = g.logEnv
              /\ logLvl' = g.logLvl
              /\ cells' = g.cells
              /\ zapLogger' = g.zapLogger
              /\ nextId' = g.nextId
              /\ builds' = g.builds
              /\ once' = "done"
              /\ IF g.zapLogger = NilLogger
                 THEN /\ outcome' = [end EXCEPT !.ret = "panic"]
                      /\ UNCHANGED <<sink, exited>>
                 ELSE \E extraOrder \in MapOrders(DOMAIN r.AdditionalProperties),
                         tagOrder \in MapOrders(TagKeys) :
                        LET f == Formatted(r, g.logEnv, extraOrder, tagOrder)
                            w == WriteWith(g.cells, g.zapLogger, m.sev, f.msg, f.fields)
                        IN  /\ sink' = sink \o w
                            /\ exited' = Terminates(m.sev)
                            /\ outcome' = [end EXCEPT
                                             !.ret = IF Terminates(m.sev) THEN "exit"
                                                     ELSE "returned",
                                             !.thr = g.cells[g.zapLogger.cell],
                                             !.wrote = w]
    /\ UNCHANGED <<env, pc, cur, hist, serVars>>

NextBld ==
    \/ NewSeed
    \/ AssignSeedKey
    \/ WithFieldCall
    \/ WithFieldsCall
    \/ WithErrorCall
    \/ EntryWithFieldCall
    \/ EntryWithFieldsCall
    \/ EntryWithErrorCall
    \/ Terminal

\* the package variables before the first use, in environment e
FreshRt(e) ==
    /\ env = e
    /\ logEnv = ""
    /\ logLvl = 0
    /\ cells = [c \in {0} |-> ZapLevel.info]
    /\ zapLogger = NilLogger
    /\ once = "fresh"
    /\ builds = 0
    /\ nextId = 1
    /\ pc = [t \in Threads |-> "idle"]
    /\ cur = [t \in Threads |-> NoCall]
    /\ outcome = NoOutcome
    /\ sink = <<>>
    /\ exited = FALSE
    /\ calls = 0
    /\ hist = [last |-> {}, ovl |-> {}, requested |-> {}, got |-> {}]


(***************************************************************************)
(* Specifications.                                                         *)
(***************************************************************************)
Init == InitRt /\ IdleSer /\ IdleFld

Next == NextRt

Spec == Init /\ [][Next]_vars

InitSerialize == InitSer /\ IdleFld /\ IdleRt

SpecSerialize == InitSerialize /\ [][NextSer]_vars

InitFields == InitFld /\ IdleSer /\ IdleRt

SpecFields == InitFields /\ [][NextFld]_vars

InitBuilder == InitFld /\ IdleSer /\ \E e \in BuilderEnvironments : FreshRt(e)

SpecBuilder == InitBuilder /\ [][NextBld]_vars

(***************************************************************************)
(* Properties of the runtime.                                              *)
(***************************************************************************)
\* the entry the zap core writes for a nil record
IsNilEntry(e) == e.level = "error" /\ e.msg = nilLogMessage /\ e.fields = <<>>

\* the last call to end was a dispatch of a nil record
NilDispatchEnded == outcome.op = "dispatch" /\ outcome.nilRec

\* C1 as stated: a nil record dispatched through any entry point, whatever
\* the threshold, is answered by exactly one ERROR entry with the nil-message
\* text, and the call returns to its caller.
C1_NilAlwaysOneError ==
    (NilDispatchEnded /\ ~env.buildFails) =>
        /\ outcome.ret = "returned"
        /\ Len(outcome.wrote) = 1
        /\ IsNilEntry(outcome.wrote[1])

\* C1 amended: once the logger is constructed the call returns to its caller
\* and does not end the process; it writes exactly one ERROR entry with the
\* nil-message text when the threshold the core reads is ERROR or lower, and
\* nothing when it is FATAL.  (With a failed construction the call panics.)
C1_NilOneErrorUnlessFatal ==
    NilDispatchEnded =>
        IF env.buildFails
        THEN outcome.ret = "panic" /\ outcome.wrote = <<>>
        ELSE /\ outcome.ret = "returned"
             /\ ~exited
             /\ outcome.thr <= ZapLevel.error =>
                    Len(outcome.wrote) = 1 /\ IsNilEntry(outcome.wrote[1])
             /\ outcome.thr > ZapLevel.error => outcome.wrote = <<>>

\* FatalMessage(nil) returned after writing the one ERROR entry
C1_Witness ==
    /\ NilDispatchEnded
    /\ outcome.sev = "fatal"
    /\ outcome.ret = "returned"
    /\ Len(outcome.wrote) = 1
    /\ IsNilEntry(outcome.wrote[1])
    /\ outcome.wrote[1] = sink[Len(sink)]

\* C2 as stated: a dispatch that started after SetLevel(L) returned success,
\* with no SetLevel since, is filtered against L (outcome.expect is {L} for
\* exactly those dispatches).
C2_FilteredAgainstSetLevel ==
    (outcome.op = "dispatch" /\ outcome.ret # "panic" /\ outcome.expect # {}) =>
        outcome.thr \in outcome.expect

\* a step in which some call ends
EndsCall ==
    \/ \E t \in Threads : pc[t] # "idle" /\ pc'[t] = "idle"
    \/ calls' = calls + 1 /\ pc' = pc

\* the level names the package documents
RecognizedNames == {"DEBUG", "INFO", "WARN", "WARNING", "ERROR", "FATAL"}

\* C3: SetLevel with an unrecognized name returns an error and GetLevel
\* returns afterwards what it returned before.
C3_UnknownLevelRejected ==
    [][ (EndsCall /\ outcome'.op = "SetLevel" /\ outcome'.name \notin RecognizedNames)
            => (outcome'.ret = "error" /\ GetLevel' = GetLevel) ]_vars

\* SetLevel("TRACE") was refused while the threshold was FATAL
C3_Witness ==
    /\ outcome.op = "SetLevel"
    /\ outcome.name = "TRACE"
    /\ outcome.ret = "error"
    /\ GetLevel = "fatal"

\* C4: a non-nil record dispatched at severity S is written only if S is at
\* or above the threshold the core read, and then once, at severity S; below
\* the threshold nothing is written.
C4_OnlyAtOrAboveThreshold ==
    (outcome.op = "dispatch" /\ ~outcome.nilRec /\ outcome.ret # "panic") =>
        /\ Len(outcome.wrote) <= 1
        /\ \A i \in 1..Len(outcome.wrote) :
              /\ outcome.wrote[i].level = outcome.sev
              /\ ZapLevel[outcome.sev] >= outcome.thr
        /\ ZapLevel[outcome.sev] < outcome.thr => outcome.wrote = <<>>

\* a record dispatched at INFO under threshold ERROR was dropped
C4_Witness ==
    /\ outcome.op = "dispatch" /\ ~outcome.nilRec
    /\ outcome.ret = "returned"
    /\ outcome.sev = "info"
    /\ outcome.thr = ZapLevel.error
    /\ outcome.wrote = <<>>

\* the threads that hold the result of GetZapLogger
Holders == {t \in Threads : pc[t] \in {"call", "swap"}}

\* buildZapLogger runs once, and GetZapLogger returns only after it is over
BuiltOnceAndAwaited ==
    /\ builds <= 1
    /\ \A t \in Holders : once = "done" /\ builds = 1

C6_ConcurrentSetLevelOneWins ==
    (Setters = {} /\ hist.last = {} /\ Cardinality(hist.requested) >= 2) =>
        GetLevel \in {LevelString(l) : l \in hist.requested}

\* the last call to end was a dispatch at FATAL that did not panic
FatalDispatchEnded ==
    outcome.op = "dispatch" /\ outcome.sev = "fatal" /\ outcome.ret # "panic"

\* the process ended only after a FATAL entry had been written, the last one
ExitFollowsFatalEntry ==
    exited => (sink # <<>> /\ sink[Len(sink)].level = "fatal")

\* C13 as stated: every fatal-severity call ends the process, after its entry
\* was written, whatever record it is given, a nil record included.
C13_EveryFatalTerminates ==
    /\ ExitFollowsFatalEntry
    /\ FatalDispatchEnded =>
          /\ outcome.ret = "exit" /\ exited
          /\ Len(outcome.wrote) = 1

\* C13 amended: a fatal-severity call with a non-nil record ends the process,
\* and only after its FATAL entry was written; with a nil record it returns
\* without ending the process.  A call panics only when the construction of
\* the logger failed.
C13_FatalTerminatesUnlessNil ==
    /\ ExitFollowsFatalEntry
    /\ (outcome.op = "dispatch" /\ outcome.ret = "panic") => env.buildFails
    /\ FatalDispatchEnded =>
          IF outcome.nilRec
          THEN outcome.ret = "returned" /\ ~exited
          ELSE /\ outcome.ret = "exit" /\ exited
               /\ Len(outcome.wrote) = 1
               /\ outcome.wrote[1].level = "fatal"
               /\ sink[Len(sink)] = outcome.wrote[1]

\* a fatal call with a record wrote its entry and ended the process
C13_Witness ==
    /\ FatalDispatchEnded /\ ~outcome.nilRec
    /\ exited
    /\ sink # <<>> /\ sink[Len(sink)].level = "fatal"
    /\ sink[Len(sink)] = outcome.wrote[1]

\* the level names addStackTrace has a case for
StackLevelNames == {"DEBUG", "INFO", "WARN", "WARNING", "ERROR"}

FailureReport == "Cannot add stack trace for level"

Reported(prints) == \E i \in 1..Len(prints) : prints[i] = FailureReport

\* C14 as stated: AddStackTrace with a name it does not recognize does not
\* abort, reports the failure, and leaves the logger and its stack-trace
\* policy as they were (the call never gets to the replacement of the logger).
C14_UnknownStackLevelReported ==
    /\ \A t \in Threads :
          (cur[t].op = "AddStackTrace" /\ cur[t].name \notin StackLevelNames)
              => pc[t] \notin {"get", "build1", "build2", "build3", "swap"}
    /\ (outcome.op = "AddStackTrace" /\ outcome.name \notin StackLevelNames) =>
          outcome.ret = "returned" /\ Reported(outcome.prints)

\* C14 amended: while NoStacktrace does not parse as true, AddStackTrace with
\* an unrecognized name returns, reports the failure and leaves the logger
\* variable as it was.  While NoStacktrace parses as true the name is not
\* looked at: nothing is reported and the logger is replaced by a clone with
\* the same level and stack-trace policy (the call panics only when the
\* construction of the logger failed).
C14_UnknownStackLevelUnlessSuppressed ==
    [][ (EndsCall /\ outcome'.op = "AddStackTrace" /\ outcome'.name \notin StackLevelNames)
          => IF ParseBool(env.noStack).val
             THEN /\ ~Reported(outcome'.prints)
                  /\ outcome'.ret = "panic" => (env.buildFails /\ zapLogger' = zapLogger)
                  /\ outcome'.ret # "panic" =>
                        /\ outcome'.ret = "returned"
                        /\ zapLogger'.id # zapLogger.id
                        /\ zapLogger'.stack = zapLogger.stack
                        /\ zapLogger'.cell = zapLogger.cell
             ELSE /\ outcome'.ret = "returned"
                  /\ Reported(outcome'.prints)
                  /\ zapLogger' = zapLogger ]_vars

\* AddStackTrace("FATAL") on a constructed logger reported the failure
C14_Witness ==
    /\ outcome.op = "AddStackTrace"
    /\ outcome.name = "FATAL"
    /\ outcome.ret = "returned"
    /\ Reported(outcome.prints)
    /\ zapLogger # NilLogger

\* the threshold a LOG_LEVEL value asks for
EnvLevelNames ==
    [DEBUG |-> "debug", INFO |-> "info", WARN |-> "warn", WARNING |-> "warn",
     ERROR |-> "error", FATAL |-> "fatal"]

WritesSink(t) == pc[t] = "swap" /\ cur[t].lg # NilLogger

\* the next step of t reads the variable zapLogger (GetZapLogger line 77)
ReadsSink(t) == (pc[t] = "get" /\ once = "done") \/ pc[t] = "call"

SinkRace ==
    \E t \in Threads : \E u \in Threads \ {t} :
        WritesSink(t) /\ (WritesSink(u) \/ ReadsSink(u))

\* the next step of t assigns the variable logLvl (buildZapLogger line 82)
\* while u may read it (SetLevel, GetLevel)
LevelVarRace ==
    \E t \in Threads : \E u \in Threads \ {t} : pc[t] = "build1" /\ CanStart(u)

\* C17 as stated: no thread writes the shared logger variable or the shared
\* level variable while another reads or writes it unsynchronized.
C17_NoUnsynchronizedAccess == ~SinkRace /\ ~LevelVarRace


(***************************************************************************)
(* Properties of the serializations.                                       *)
(***************************************************************************)
\* the order SerializeFields documents for the fixed attributes
FixedKeyOrder ==
    << "rosetta-context", "status", "method", "protocol", "path", "query",
       "client-ip", "user-agent", "start-time", "end-time", "latency-unit", "latency" >>

\* the key each attribute is serialized under
AttrKey ==
    [ ClientIP |-> "client-ip", CorrelationId |-> "correlation-id",
      StartTime |-> "start-time", EndTime |-> "end-time",
      LatencyNanoSeconds |-> "latency", LoggerContext |-> "rosetta-context",
      Method |-> "method", Path |-> "path", Protocol |-> "protocol",
      Query |-> "query", Status |-> "status", UserAgent |-> "user-agent" ]

\* the subsequence of s whose elements are in S
RECURSIVE Restrict(_, _)
Restrict(s, S) ==
    IF s = <<>> THEN <<>>
    ELSE IF Head(s) \in S THEN <<Head(s)>> \o Restrict(Tail(s), S)
    ELSE Restrict(Tail(s), S)

Range(s) == {s[i] : i \in 1..Len(s)}

\* the keys of the record in the documented order, the global tags in tagOrder
DocumentedKeys(l, tagOrder) ==
       Restrict(FixedKeyOrder,
                {AttrKey[a] : a \in {b \in AttrNames : l[b] # ZeroOf[b]}}
                   \cup (IF l.LatencyNanoSeconds # 0 THEN {"latency-unit"} ELSE {}))
    \o SortStrings(DOMAIN l.AdditionalProperties)
    \o tagOrder

\* plain output lists its fields in the documented order
PlainInFixedOrder ==
    out.last.kind = "plain" =>
        \E tagOrder \in MapOrders(IF out.last.skip THEN {} ELSE TagKeys) :
            KeysOf(out.last.fields)
                = Restrict(DocumentedKeys(rec, tagOrder), Range(KeysOf(out.last.fields)))

\* two SerializeFields calls on equal records with the same flag agree
PlainDeterministic ==
    (out.last.kind = "plain" /\ out.prev.kind = "plain" /\ out.last.skip = out.prev.skip)
        => out.last.text = out.prev.text

\* C7: SerializeFields is deterministic for either value of skipGlobalTags
\* and lists the fields in the fixed order.
C7_DeterministicFixedOrder == PlainInFixedOrder /\ PlainDeterministic

\* C8: every attribute's field is in the serialized output exactly when the
\* attribute is not its type's zero value.
C8_PresentIffNonZero ==
    out.last.kind \in {"plain", "zap"} =>
        \A a \in AttrNames :
            (AttrKey[a] \in Range(KeysOf(out.last.fields))) <=> (rec[a] # ZeroOf[a])

\* C9: getZapFields yields the keys of the plain serialization in the same
\* order: fixed attributes, extras in ascending key order, global tags.
C9_ZapKeysAsPlain ==
    out.last.kind = "zap" =>
        \E tagOrder \in MapOrders(TagKeys) :
            KeysOf(out.last.fields) = KeysOf(SerializeFieldList(rec, FALSE, tagOrder))

(***************************************************************************)
(* Properties of the Fields maps.                                          *)
(***************************************************************************)
\* C10: CloneWithAll and CloneWith return a new map and leave the receiver
\* and the argument as they were; the result has every key of both, with the
\* argument's value for a key of both (for CloneWith, the given key).
C10_CloneIsCopy ==
    /\ fcall.op = "CloneWithAll" =>
          LET a == fcall.before[fcall.recv]
              b == fcall.before[fcall.arg]
              r == heap[fcall.res]
          IN  /\ fcall.res \notin {fcall.recv, fcall.arg}
              /\ \A x \in 1..Len(fcall.before) : heap[x] = fcall.before[x]
              /\ DOMAIN r = DOMAIN a \cup DOMAIN b
              /\ \A k \in DOMAIN b : r[k] = b[k]
              /\ \A k \in DOMAIN a \ DOMAIN b : r[k] = a[k]
    /\ fcall.op = "CloneWith" =>
          LET a == fcall.before[fcall.recv]
              r == heap[fcall.res]
          IN  /\ fcall.res # fcall.recv
              /\ \A x \in 1..Len(fcall.before) : heap[x] = fcall.before[x]
              /\ DOMAIN r = DOMAIN a \cup {fcall.key}
              /\ \A k \in DOMAIN a \ {fcall.key} : r[k] = a[k]

\* a.CloneWithAll(b) where a and b disagree on a key: the result has b's value
C10_Witness ==
    /\ fcall.op = "CloneWithAll"
    /\ fcall.recv # fcall.arg
    /\ \E k \in DOMAIN heap[fcall.recv] \cap DOMAIN heap[fcall.arg] :
          /\ heap[fcall.recv][k] # heap[fcall.arg][k]
          /\ heap[fcall.res][k] = heap[fcall.arg][k]

(***************************************************************************)
(* Properties of the builder.                                              *)
(***************************************************************************)
\* the severity each terminal method is documented to log at
DocumentedSeverity ==
    [ m \in { "Info", "Infof", "Print", "Printf", "Warn", "Warnf", "Warning", "Warningf",
              "Error", "Errorf", "Debug", "Debugf", "Fatal", "Fatalf" } |->
        CASE m \in {"Info", "Infof", "Print", "Printf"}        -> "info"
          [] m \in {"Warn", "Warnf", "Warning", "Warningf"}    -> "warn"
          [] m \in {"Error", "Errorf"}                         -> "error"
          [] m \in {"Debug", "Debugf"}                         -> "debug"
          [] m \in {"Fatal", "Fatalf"}                         -> "fatal" ]

PrintfMethods ==
    {"Infof", "Printf", "Warnf", "Warningf", "Errorf", "Debugf", "Fatalf"}

\* the message the caller gave: "done", or the format "done %v" applied to 3
DocumentedMessage(method) == IF method \in PrintfMethods THEN "done 3" ELSE "done"

\* the record the last terminal call dispatched
LastRecord == bld.recs[Len(bld.recs)]

\* the key/value pairs of the zap.Any fields of a written entry
AnyPairs(e) ==
    { <<e.fields[i].key, e.fields[i].val>> :
          i \in {j \in 1..Len(e.fields) : e.fields[j].typ = "Any"} }

\* C11: a terminal call dispatches, at the severity of the method, a record
\* with the given message whose extra fields are exactly the pairs given to
\* the builder, the latest value for a repeated key (in production mode the
\* written entry carries that message and those pairs).
C11_TerminalCarriesAccumulated ==
    fcall.op = "terminal" =>
        /\ LastRecord.sev = DocumentedSeverity[fcall.key]
        /\ LastRecord.msg = DocumentedMessage(fcall.key)
        /\ heap[LastRecord.props] = bld.acc
        /\ outcome.op = "dispatch" /\ outcome.sev = LastRecord.sev
        /\ \A i \in 1..Len(outcome.wrote) :
              /\ outcome.wrote[i].level = LastRecord.sev
              /\ ~IsDevelopment(logEnv) =>
                    /\ outcome.wrote[i].msg = LastRecord.msg
                    /\ AnyPairs(outcome.wrote[i]) = {<<k, bld.acc[k]>> : k \in DOMAIN bld.acc}

\* WithFields(seed) with user = "a1" and error = 3, then Warnf in production
\* mode: the entry written carries both pairs
C11_Witness ==
    /\ fcall.op = "terminal" /\ fcall.key = "Warnf"
    /\ bld.seed # 0
    /\ DOMAIN bld.acc = {"error", "user"}
    /\ heap[LastRecord.props]["user"] = StrValue("a1")
    /\ heap[LastRecord.props]["error"] = IntValue(3)
    /\ Len(outcome.wrote) = 1
    /\ outcome.wrote[1].msg = "done 3"
    /\ AnyPairs(outcome.wrote[1]) = {<<"user", StrValue("a1")>>, <<"error", IntValue(3)>>}

\* C12: WithError(err) sets the key "error" to err's message when err is not
\* nil and changes nothing when err is nil, an "error" value set earlier
\* included.
C12_WithErrorSetsOrKeeps ==
    /\ fcall.op = "entry.WithError" =>
          IF fcall.err.isNil
          THEN heap = fcall.before
          ELSE /\ DOMAIN heap = DOMAIN fcall.before
               /\ \A x \in DOMAIN heap \ {fcall.recv} : heap[x] = fcall.before[x]
               /\ DOMAIN heap[fcall.recv] = DOMAIN fcall.before[fcall.recv] \cup {"error"}
               /\ heap[fcall.recv]["error"] = StrValue(fcall.err.msg)
               /\ \A k \in DOMAIN fcall.before[fcall.recv] \ {"error"} :
                     heap[fcall.recv][k] = fcall.before[fcall.recv][k]
    /\ fcall.op = "WithError" =>
          /\ DOMAIN heap[fcall.res] = IF fcall.err.isNil THEN {} ELSE {"error"}
          /\ \A k \in DOMAIN heap[fcall.res] : heap[fcall.res][k] = StrValue(fcall.err.msg)
          /\ \A x \in 1..Len(fcall.before) : heap[x] = fcall.before[x]

\* WithError(nil) on a builder whose "error" was set by WithField kept it
C12_Witness ==
    /\ fcall.op = "entry.WithError"
    /\ fcall.err.isNil
    /\ "error" \in DOMAIN heap[bld.entry]
    /\ heap[bld.entry]["error"] = StrValue("a1")

\* key=value: a string quoted, a number bare
DocumentedPair(k, x) ==
    k \o "=" \o (IF x.kind = "string" THEN "\"" \o x.v \o "\"" ELSE ToString(x.v))

\* the pairs of m as key=value texts, in the order of keys
PairTexts(m, keys) == [i \in 1..Len(keys) |-> DocumentedPair(keys[i], m[keys[i]])]

TagTexts(tagOrder) ==
    [i \in 1..Len(tagOrder) |-> tagOrder[i] \o "=\"" \o getGlobalTags[tagOrder[i]] \o "\""]

\* a terminal call was made in development (plain) mode
PlainTerminal == fcall.op = "terminal" /\ IsDevelopment(logEnv)

\* C16 as stated: in plain mode a terminal call at or above the threshold
\* writes one line: the message, the accumulated fields as key=value pairs,
\* then the global tags application and component.
C16_PlainLineWithTags ==
    (PlainTerminal /\ ZapLevel[outcome.sev] >= outcome.thr) =>
        /\ Len(outcome.wrote) = 1
        /\ \E keys \in MapOrders(DOMAIN bld.acc), tagOrder \in MapOrders(TagKeys) :
              outcome.wrote[1].msg
                  = Join(<<LastRecord.msg>> \o PairTexts(bld.acc, keys) \o TagTexts(tagOrder), " ")

\* C16 amended: in plain mode a terminal call at or above the threshold
\* writes one line: the message, a space, and the accumulated fields as
\* key=value pairs in ascending key order joined by spaces; the global tags
\* are not part of the line.  Below the threshold nothing is written.
C16_PlainLineWithoutTags ==
    PlainTerminal =>
        IF ZapLevel[outcome.sev] >= outcome.thr
        THEN /\ Len(outcome.wrote) = 1
             /\ outcome.wrote[1].fields = <<>>
             /\ outcome.wrote[1].msg
                  = LastRecord.msg \o " "
                      \o Join(PairTexts(bld.acc, SortStrings(DOMAIN bld.acc)), " ")
        ELSE outcome.wrote = <<>>

\* WithField("user", "a1"), WithField("error", 3), Error("done") in plain mode
C16_Witness ==
    /\ PlainTerminal
    /\ fcall.key = "Error"
    /\ Len(outcome.wrote) = 1
    /\ outcome.wrote[1].msg = "done error=3 user=\"a1\""

\* C18: a terminal call leaves every map as it was, the builder's included,
\* and each record dispatched so far holds, in a map of its own, the pairs
\* the builder had at the time of its call.
C18_TerminalCopiesFields ==
    /\ \A i \in 1..Len(bld.recs) :
          /\ bld.recs[i].props # bld.entry
          /\ heap[bld.recs[i].props] = bld.recs[i].at
    /\ fcall.op = "terminal" =>
          \A x \in 1..Len(fcall.before) : heap[x] = fcall.before[x]

\* a terminal call, then a WithField that changed the builder: the record
\* still holds the earlier pairs
C18_Witness ==
    /\ Len(bld.recs) = 1
    /\ fcall.op = "entry.WithField"
    /\ heap[bld.entry] # fcall.before[bld.entry]
    /\ heap[bld.recs[1].props] = bld.recs[1].at
    /\ heap[bld.recs[1].props] # heap[bld.entry]

BuilderOps ==
    {"WithFields", "entry.WithField", "entry.WithFields", "entry.WithError", "terminal"}

\* C19: the builder WithFields(seed) returns has a map of its own with the
\* seed's pairs; no call on the builder changes the seed, and an assignment
\* to the seed does not change the builder.
C19_SeedIsCopied ==
    bld.seed # 0 =>
        /\ bld.entry # bld.seed
        /\ fcall.op = "WithFields" => heap[bld.entry] = heap[bld.seed]
        /\ fcall.op \in BuilderOps => heap[bld.seed] = fcall.before[bld.seed]
        /\ (fcall.op = "assign" /\ fcall.recv = bld.seed) =>
              heap[bld.entry] = fcall.before[bld.entry]

\* WithFields(seed), then an assignment to the seed: the seed changed, the
\* builder kept the pairs it was given
C19_Witness ==
    /\ bld.seed # 0
    /\ fcall.op = "assign" /\ fcall.recv = bld.seed
    /\ heap[bld.seed] # fcall.before[bld.seed]
    /\ heap[bld.entry] = bld.acc
    /\ heap[bld.entry] = fcall.before[bld.seed]

====
